---- MODULE Spec2Model ----
(***************************************************************************)
(* Model of the slideshow WebSocket channel of bachelor_openstream:        *)
(* backend/openstream/project/consumers.py (AuthenticatedConsumer,         *)
(* SlideshowConsumer, get_user_from_token, get_slideshow, patch_slideshow) *)
(* and backend/openstream/app/permissions.py (get_branch_for_user).        *)
(*                                                                         *)
(* One consumer instance per connection.  The dispatch loop of the         *)
(* consumer hands it one event at a time (a text frame or the disconnect   *)
(* event) and awaits the handler before taking the next one.  A handler    *)
(* suspends only inside the three database_sync_to_async calls; the        *)
(* authentication timer is a separate asyncio task and runs whenever the   *)
(* handler is suspended or idle.  self.send / self.close do not suspend.   *)
(* self.close() only emits a close event: nothing in the consumer reads    *)
(* "closed", so frames that were queued before the close are still handed  *)
(* to receive() (at most MaxQueue of them in the model).                   *)
(***************************************************************************)
EXTENDS Integers, Sequences, FiniteSets, TLC

\* ------------------------------------------------------------------ bounds
\* frames handed to the handler of the connection under test
MaxFrames == 3
\* frames handed to the handler of each of two connections sharing a document
MaxPeerFrames == 2
\* frames already queued when the server closes, still dispatched afterwards
MaxQueue == 1

Conns == {1, 2}

\* ------------------------------------------------------- fixture database
\* users, branches, memberships and slideshows (static except the slideshows'
\* editable fields); ids are the text that arrives in the URL / the token
BranchIds == {"15", "16"}
SlideshowIds == {"1", "2"}
NumericIds == {"1", "2", "15", "16", "99"}

\* OrganisationMembership rows that give access to a branch
HasMembership(u, branch) ==
  \/ u = "u1" /\ branch = "15"
  \/ u = "u2" /\ branch = "16"
  \/ u = "u3" /\ branch = "15"

NoSnap == [id |-> "", branch |-> "", name |-> "", slideshow_data |-> ""]

InitDb ==
  [s \in SlideshowIds |->
     [id |-> s, branch |-> (IF s = "1" THEN "15" ELSE "16"),
      name |-> "n0", slideshow_data |-> "d0"]]

\* ------------------------------------------------------------ client input
\* the connection's URL: slideshow_id from the path, branch from the query
\* string ("none" = no branch parameter)
Scopes ==
  { [sid |-> "1", bid |-> "15"],
    [sid |-> "2", bid |-> "15"],
    [sid |-> "1", bid |-> "none"],
    [sid |-> "1", bid |-> "99"],
    [sid |-> "x", bid |-> "15"] }

PeerScopes == { [sid |-> "1", bid |-> "15"] }

NoData == [kind |-> "absent", keys |-> {}, name |-> "", slideshow_data |-> "", branch |-> ""]
Patch(keys, name, sdata, branch) ==
  [kind |-> "dict", keys |-> keys, name |-> name, slideshow_data |-> sdata, branch |-> branch]

\* a text frame: json is "invalid" (not parseable), "nonobj" (a JSON value that
\* is not an object) or "obj"
Frame(json, hasType, type, hasToken, token, data) ==
  [json |-> json, hasType |-> hasType, type |-> type,
   hasToken |-> hasToken, token |-> token, data |-> data]

Obj(type) == Frame("obj", TRUE, type, FALSE, "", NoData)
Auth(token) == Frame("obj", TRUE, "authenticate", TRUE, token, NoData)
Update(data) == Frame("obj", TRUE, "update", FALSE, "", data)

NoFrame == Frame("none", FALSE, "", FALSE, "", NoData)

PatchName == Patch({"name"}, "n1", "", "")
PatchData == Patch({"slideshow_data"}, "", "d1", "")
PatchBlankName == Patch({"name"}, "", "", "")
PatchBranch == Patch({"branch", "name"}, "n2", "", "16")
EmptyDict == Patch({}, "", "", "")
NonDict == [NoData EXCEPT !.kind = "nondict"]

Frames ==
  { Frame("invalid", FALSE, "", FALSE, "", NoData),
    Frame("nonobj", FALSE, "", FALSE, "", NoData),
    Frame("obj", FALSE, "", FALSE, "", NoData),
    Obj("message"),
    Obj("authenticate"),
    Auth(""), Auth("bad"), Auth("ghost"), Auth("t1"), Auth("t2"),
    Update(NoData), Update(NonDict), Update(EmptyDict),
    Update(PatchName), Update(PatchData), Update(PatchBlankName),
    Update(PatchBranch) }

PeerFrames == { Auth("t1"), Auth("t3"), Update(PatchName), Update(PatchData) }

\* ------------------------------------------------------------------- events
\* one entry of a connection's log: a frame handed to receive ("recv"), a
\* websocket.send of a JSON object with one payload key, plus "code" when
\* hasCode ("send"), a websocket.close with a code ("close"), a collaborator
\* call ("call") or the disconnect event ("disconnect"); "by" is the task:
\* the dispatch loop, the handler it awaits ("recv") or the timer
Ev(k, by, key, text, hasCode, code, snap, frame) ==
  [k |-> k, by |-> by, key |-> key, text |-> text,
   hasCode |-> hasCode, code |-> code, snap |-> snap, frame |-> frame]

Recv(f) == Ev("recv", "loop", "", "", FALSE, 0, NoSnap, f)
Call(name) == Ev("call", "recv", name, "", FALSE, 0, NoSnap, NoFrame)
Gone == Ev("disconnect", "loop", "", "", FALSE, 0, NoSnap, NoFrame)
SendType(by, t) == Ev("send", by, "type", t, FALSE, 0, NoSnap, NoFrame)
SendError(by, text) == Ev("send", by, "error", text, FALSE, 0, NoSnap, NoFrame)
SendMessage(by, text) == Ev("send", by, "message", text, FALSE, 0, NoSnap, NoFrame)
SendData(by, snap) == Ev("send", by, "data", "", FALSE, 0, snap, NoFrame)
Close(by, code) == Ev("close", by, "", "", FALSE, code, NoSnap, NoFrame)

VARIABLES
  db,             \* Slideshow rows: id -> [id, branch, name, slideshow_data]
  conn,           \* "new" | "live" | "stopped" | "crashed"
  scope,          \* the connection's URL: [sid, bid]
  user,           \* self.user ("anon" = AnonymousUser)
  authenticated,  \* self.authenticated
  attrs,          \* self.slideshow_id / self.branch_id ("unset" until set)
  slideshow,      \* self.slideshow (NoSnap until set)
  timer,          \* self.auth_timer: "none" | "pending" | "fired" | "cancelled"
  pc,             \* handler position: "idle" | "verify" | "load" | "patch" | "save"
  cur,            \* the frame the handler was last given
  obj,            \* patch_slideshow's local: the row read before the save
  log,            \* what happened on the connection, in order
  closed,         \* a close event has been emitted
  nrecv,          \* frames handed to receive()
  late,           \* frames handed to receive() after the first close
  writer          \* per slideshow: the last committed patch and who made it

vars == <<db, conn, scope, user, authenticated, attrs, slideshow, timer, pc, cur,
          obj, log, closed, nrecv, late, writer>>

NoScope == [sid |-> "unset", bid |-> "unset"]
NoWriter == [by |-> 0, data |-> NoData]

Init ==
  /\ db = InitDb
  /\ conn = [c \in Conns |-> "new"]
  /\ scope = [c \in Conns |-> NoScope]
  /\ user = [c \in Conns |-> "anon"]
  /\ authenticated = [c \in Conns |-> FALSE]
  /\ attrs = [c \in Conns |-> NoScope]
  /\ slideshow = [c \in Conns |-> NoSnap]
  /\ timer = [c \in Conns |-> "none"]
  /\ pc = [c \in Conns |-> "idle"]
  /\ cur = [c \in Conns |-> NoFrame]
  /\ obj = [c \in Conns |-> NoSnap]
  /\ log = [c \in Conns |-> <<>>]
  /\ closed = [c \in Conns |-> FALSE]
  /\ nrecv = [c \in Conns |-> 0]
  /\ late = [c \in Conns |-> 0]
  /\ writer = [s \in SlideshowIds |-> NoWriter]

\* ------------------------------------------------------------- pure parts
\* AuthPrecheck with the token looked at before the message type
AuthPrecheckTokenFirst(f) ==
  IF ~f.hasToken \/ f.token = "" THEN 4004
  ELSE IF ~(f.hasType /\ f.type = "authenticate") THEN 4002
  ELSE 0

\* authenticate_user, the checks made before the token is verified:
\* the close code, or 0 when the token goes to get_user_from_token
AuthPrecheck(f) ==
  IF ~(f.hasType /\ f.type = "authenticate") THEN 4002
  ELSE IF ~f.hasToken \/ f.token = "" THEN 4004
  ELSE 0

\* get_user_from_token: the user id, or the exception raised
GetUserFromToken(token) ==
  CASE token = "t1" -> "u1"
    [] token = "t2" -> "u2"
    [] token = "t3" -> "u3"
    [] token = "ghost" -> "DoesNotExist"
    [] OTHER -> "TokenError"

\* authenticate_user, the except clauses around get_user_from_token
VerifyFailCode(exc) ==
  IF exc = "TokenError" THEN 4001 ELSE 4004

\* close_with_auth_error: what it emits
CloseWithAuthError(by, code) ==
  << SendError(by, "Missing authentication"), Close(by, code) >>

\* UnauthStage with one except clause for every failure
UnauthStageOneCode(f) ==
  IF f.json \in {"invalid", "nonobj"} THEN [do |-> "close", code |-> 4006]
  ELSE IF AuthPrecheck(f) # 0 THEN [do |-> "autherror", code |-> AuthPrecheck(f)]
  ELSE [do |-> "verify", code |-> 0]

\* receive, not authenticated, up to the call of get_user_from_token
UnauthStage(f) ==
  IF f.json = "invalid" THEN [do |-> "close", code |-> 4005]
  ELSE IF f.json = "nonobj" THEN [do |-> "close", code |-> 4006]
  ELSE IF AuthPrecheck(f) # 0 THEN [do |-> "autherror", code |-> AuthPrecheck(f)]
  ELSE [do |-> "verify", code |-> 0]

\* AuthedStage that hands every dict, the empty one too, to patch_slideshow
AuthedStageAnyDict(f) ==
  IF f.json = "invalid" THEN [do |-> "error", text |-> "Invalid JSON data"]
  ELSE IF f.json = "nonobj" \/ ~f.hasType THEN [do |-> "raise", text |-> ""]
  ELSE IF f.type # "update" THEN [do |-> "noop", text |-> ""]
  ELSE IF f.data.kind = "dict" THEN [do |-> "patch", text |-> ""]
  ELSE [do |-> "error", text |-> "Missing or invalid data"]

\* AuthedStage without the except clause around json.loads
AuthedStageJsonRaises(f) ==
  IF f.json \in {"invalid", "nonobj"} \/ ~f.hasType THEN [do |-> "raise", text |-> ""]
  ELSE IF f.type # "update" THEN [do |-> "noop", text |-> ""]
  ELSE IF f.data.kind = "dict" /\ f.data.keys # {} THEN [do |-> "patch", text |-> ""]
  ELSE [do |-> "error", text |-> "Missing or invalid data"]

\* AuthedStage that answers a type it does not know with an error message
AuthedStageUnknownTypeError(f) ==
  IF f.json = "invalid" THEN [do |-> "error", text |-> "Invalid JSON data"]
  ELSE IF f.json = "nonobj" \/ ~f.hasType THEN [do |-> "raise", text |-> ""]
  ELSE IF f.type # "update" THEN [do |-> "error", text |-> "Unknown message type"]
  ELSE IF f.data.kind = "dict" /\ f.data.keys # {} THEN [do |-> "patch", text |-> ""]
  ELSE [do |-> "error", text |-> "Missing or invalid data"]

\* handle_authenticated_message up to the call of patch_slideshow
AuthedStage(f) ==
  IF f.json = "invalid" THEN [do |-> "error", text |-> "Invalid JSON data"]
  ELSE IF f.json = "nonobj" \/ ~f.hasType THEN [do |-> "raise", text |-> ""]
  ELSE IF f.type # "update" THEN [do |-> "noop", text |-> ""]
  ELSE IF f.data.kind = "dict" /\ f.data.keys # {} THEN [do |-> "patch", text |-> ""]
  ELSE [do |-> "error", text |-> "Missing or invalid data"]

Res(type, msg, data) == [type |-> type, error_message |-> msg, data |-> data]

\* GetBranchForUser that finds the branch and asks for no membership
GetBranchForUserNoMembership(u, bid) ==
  IF bid \notin NumericIds THEN Res("ValueError", "Field 'id' expected a number", NoSnap)
  ELSE IF bid \notin BranchIds THEN Res("Http404", "", NoSnap)
  ELSE Res("ok", "", NoSnap)

\* permissions.get_branch_for_user: "ok", or the exception raised
GetBranchForUser(u, bid) ==
  IF bid \notin NumericIds THEN Res("ValueError", "Field 'id' expected a number", NoSnap)
  ELSE IF bid \notin BranchIds THEN Res("Http404", "", NoSnap)
  ELSE IF HasMembership(u, bid) THEN Res("ok", "", NoSnap)
  ELSE Res("ValueError", "User does not have permission to access branch", NoSnap)

\* Lookup without the call of get_branch_for_user
LookupNoAccessCheck(u, a, d) ==
  IF a.bid \in {"none", "unset"} THEN Res("error", "Branch id not found", NoSnap)
  ELSE IF a.sid = "unset" THEN Res("error", "Slideshow id not found", NoSnap)
  ELSE IF a.sid \notin NumericIds THEN Res("raise", "", NoSnap)
  ELSE IF a.sid \notin SlideshowIds THEN Res("error", "Slideshow not found", NoSnap)
  ELSE IF d[a.sid].branch # a.bid THEN Res("error", "Slideshow not found", NoSnap)
  ELSE Res("ok", "", d[a.sid])

\* Lookup that finds the row by its id alone, whatever its branch
LookupAnyBranch(u, a, d) ==
  IF a.bid \in {"none", "unset"} THEN Res("error", "Branch id not found", NoSnap)
  ELSE LET b == GetBranchForUser(u, a.bid) IN
    IF b.type = "Http404" THEN Res("error", "No branch matches with that branch id", NoSnap)
    ELSE IF b.type = "ValueError" THEN Res("error", b.error_message, NoSnap)
    ELSE IF a.sid = "unset" THEN Res("error", "Slideshow id not found", NoSnap)
    ELSE IF a.sid \notin NumericIds THEN Res("raise", "", NoSnap)
    ELSE IF a.sid \notin SlideshowIds THEN Res("error", "Slideshow not found", NoSnap)
    ELSE Res("ok", "", d[a.sid])

\* the branch check and the row lookup that get_slideshow and patch_slideshow
\* share: the row, an error result, or "raise" for the ValueError that
\* get_object_or_404 lets through on a slideshow id that is not a number
Lookup(u, a, d) ==
  IF a.bid \in {"none", "unset"} THEN Res("error", "Branch id not found", NoSnap)
  ELSE LET b == GetBranchForUser(u, a.bid) IN
    IF b.type = "Http404" THEN Res("error", "No branch matches with that branch id", NoSnap)
    ELSE IF b.type = "ValueError" THEN Res("error", b.error_message, NoSnap)
    ELSE IF a.sid = "unset" THEN Res("error", "Slideshow id not found", NoSnap)
    ELSE IF a.sid \notin NumericIds THEN Res("raise", "", NoSnap)
    ELSE IF a.sid \notin SlideshowIds THEN Res("error", "Slideshow not found", NoSnap)
    ELSE IF d[a.sid].branch # a.bid THEN Res("error", "Slideshow not found", NoSnap)
    ELSE Res("ok", "", d[a.sid])

\* get_slideshow: the serialized row or the error result
GetSlideshow(u, a, d) == Lookup(u, a, d)

\* the events of a lookup's calls: get_branch_for_user is reached unless the
\* branch id is None
LookupCalls(a) ==
  IF a.bid \in {"none", "unset"} THEN << >> ELSE << Call("access") >>

\* IsValid that accepts every patch
IsValidAlways(data) == TRUE

\* SlideshowSerializer(partial=True).is_valid(): name is a CharField that
\* may not be blank; branch is read-only and is dropped, not rejected
IsValid(data) == ~("name" \in data.keys /\ data.name = "")

\* ApplyPatch that drops every field but name
ApplyPatchNameOnly(row, data) ==
  [row EXCEPT !.name = IF "name" \in data.keys THEN data.name ELSE @]

\* serializer.save(): the instance read earlier with the validated fields set
ApplyPatch(row, data) ==
  [row EXCEPT
     !.name = IF "name" \in data.keys THEN data.name ELSE @,
     !.slideshow_data = IF "slideshow_data" \in data.keys THEN data.slideshow_data ELSE @]

\* ----------------------------------------------------------------- actions
\* the events evs are logged on connection c
Logs(c, evs) ==
  /\ log' = [log EXCEPT ![c] = @ \o evs]
  /\ closed' = [closed EXCEPT ![c] = @ \/ (\E i \in 1..Len(evs) : evs[i].k = "close")]

\* SlideshowConsumer.connect
Connect(c, sc) ==
  /\ conn[c] = "new"
  /\ conn' = [conn EXCEPT ![c] = "live"]
  /\ scope' = [scope EXCEPT ![c] = sc]
  /\ user' = [user EXCEPT ![c] = "anon"]
  /\ authenticated' = [authenticated EXCEPT ![c] = FALSE]
  /\ timer' = [timer EXCEPT ![c] = "pending"]
  /\ UNCHANGED <<db, attrs, slideshow, pc, cur, obj, log, closed, nrecv, late, writer>>

\* SlideshowConsumer.disconnect_if_not_authenticated, after the sleep
TimerExpire(c) ==
  /\ timer[c] = "pending"
  /\ timer' = [timer EXCEPT ![c] = "fired"]
  /\ IF ~authenticated[c]
       THEN Logs(c, CloseWithAuthError("timer", 4001))
       ELSE UNCHANGED <<log, closed>>
  /\ UNCHANGED <<db, conn, scope, user, authenticated, attrs, slideshow, pc, cur, obj,
                 nrecv, late, writer>>

\* the dispatch loop hands the disconnect event to
\* SlideshowConsumer.disconnect, then the consumer stops
Disconnect(c) ==
  /\ conn[c] = "live"
  /\ pc[c] = "idle"
  /\ conn' = [conn EXCEPT ![c] = "stopped"]
  /\ Logs(c, << Gone >>)
  /\ UNCHANGED <<db, scope, user, authenticated, attrs, slideshow, timer, pc, cur, obj,
                 nrecv, late, writer>>

\* receive with self.authenticated false, up to the first suspension
ReceiveUnauth(c, f) ==
  LET s == UnauthStage(f) IN
  /\ IF s.do = "close" THEN Logs(c, << Recv(f), Close("recv", s.code) >>)
     ELSE IF s.do = "autherror" THEN Logs(c, << Recv(f) >> \o CloseWithAuthError("recv", s.code))
     ELSE Logs(c, << Recv(f), Call("verify") >>)
  /\ pc' = [pc EXCEPT ![c] = IF s.do = "verify" THEN "verify" ELSE "idle"]
  /\ UNCHANGED conn

\* handle_authenticated_message, up to the first suspension; an exception
\* that nothing catches ends the consumer's task
ReceiveAuthed(c, f) ==
  LET s == AuthedStage(f) IN
  /\ IF s.do = "error" THEN Logs(c, << Recv(f), SendError("recv", s.text) >>)
     ELSE IF s.do = "patch" THEN Logs(c, << Recv(f), Call("patch") >>)
     ELSE Logs(c, << Recv(f) >>)
  /\ pc' = [pc EXCEPT ![c] = IF s.do = "patch" THEN "patch" ELSE "idle"]
  /\ conn' = IF s.do = "raise" THEN [conn EXCEPT ![c] = "crashed"] ELSE conn

\* Receive that handles every frame as an authenticated message
ReceiveNoAuthCheck(c, f, budget) ==
  /\ conn[c] = "live"
  /\ pc[c] = "idle"
  /\ nrecv[c] < budget
  /\ closed[c] => late[c] < MaxQueue
  /\ nrecv' = [nrecv EXCEPT ![c] = @ + 1]
  /\ late' = [late EXCEPT ![c] = IF closed[c] THEN @ + 1 ELSE @]
  /\ cur' = [cur EXCEPT ![c] = f]
  /\ ReceiveAuthed(c, f)
  /\ UNCHANGED <<db, scope, user, authenticated, attrs, slideshow, timer, obj, writer>>

\* Receive that authenticates again on every authenticate message
ReceiveReauth(c, f, budget) ==
  /\ conn[c] = "live"
  /\ pc[c] = "idle"
  /\ nrecv[c] < budget
  /\ closed[c] => late[c] < MaxQueue
  /\ nrecv' = [nrecv EXCEPT ![c] = @ + 1]
  /\ late' = [late EXCEPT ![c] = IF closed[c] THEN @ + 1 ELSE @]
  /\ cur' = [cur EXCEPT ![c] = f]
  /\ IF authenticated[c] /\ ~(f.json = "obj" /\ f.hasType /\ f.type = "authenticate")
       THEN ReceiveAuthed(c, f) ELSE ReceiveUnauth(c, f)
  /\ UNCHANGED <<db, scope, user, authenticated, attrs, slideshow, timer, obj, writer>>

\* Receive that does not wait for the handler of the frame before
ReceiveWhileBusy(c, f, budget) ==
  /\ conn[c] = "live"
  /\ nrecv[c] < budget
  /\ closed[c] => late[c] < MaxQueue
  /\ nrecv' = [nrecv EXCEPT ![c] = @ + 1]
  /\ late' = [late EXCEPT ![c] = IF closed[c] THEN @ + 1 ELSE @]
  /\ cur' = [cur EXCEPT ![c] = f]
  /\ IF authenticated[c] THEN ReceiveAuthed(c, f) ELSE ReceiveUnauth(c, f)
  /\ UNCHANGED <<db, scope, user, authenticated, attrs, slideshow, timer, obj, writer>>

\* the dispatch loop hands the next queued frame to SlideshowConsumer.receive
Receive(c, f, budget) ==
  /\ conn[c] = "live"
  /\ pc[c] = "idle"
  /\ nrecv[c] < budget
  /\ closed[c] => late[c] < MaxQueue
  /\ nrecv' = [nrecv EXCEPT ![c] = @ + 1]
  /\ late' = [late EXCEPT ![c] = IF closed[c] THEN @ + 1 ELSE @]
  /\ cur' = [cur EXCEPT ![c] = f]
  /\ IF authenticated[c] THEN ReceiveAuthed(c, f) ELSE ReceiveUnauth(c, f)
  /\ UNCHANGED <<db, scope, user, authenticated, attrs, slideshow, timer, obj, writer>>

\* authenticate_user resumes from get_user_from_token; on success receive
\* goes on to the call of get_slideshow
VerifyDone(c) ==
  LET r == GetUserFromToken(cur[c].token) IN
  /\ pc[c] = "verify"
  /\ IF r \in {"TokenError", "DoesNotExist"}
       THEN /\ Logs(c, CloseWithAuthError("recv", VerifyFailCode(r)))
            /\ pc' = [pc EXCEPT ![c] = "idle"]
            /\ UNCHANGED <<user, authenticated, timer, attrs>>
       ELSE /\ user' = [user EXCEPT ![c] = r]
            /\ authenticated' = [authenticated EXCEPT ![c] = TRUE]
            /\ timer' = [timer EXCEPT ![c] = IF @ = "pending" THEN "cancelled" ELSE @]
            /\ Logs(c, << SendType("recv", "authenticated"), Call("load") >>)
            /\ attrs' = [attrs EXCEPT ![c] = scope[c]]
            /\ pc' = [pc EXCEPT ![c] = "load"]
  /\ UNCHANGED <<db, conn, scope, slideshow, cur, obj, nrecv, late, writer>>

\* receive resumes from get_slideshow
LoadDone(c) ==
  LET r == GetSlideshow(user[c], attrs[c], db) IN
  /\ pc[c] = "load"
  /\ pc' = [pc EXCEPT ![c] = "idle"]
  /\ IF r.type = "error"
       THEN /\ Logs(c, LookupCalls(attrs[c]) \o << SendError("recv", r.error_message) >>)
            /\ UNCHANGED slideshow
     ELSE IF r.type = "raise"
       THEN /\ Logs(c, LookupCalls(attrs[c]) \o << Close("recv", 4006) >>)
            /\ UNCHANGED slideshow
       ELSE /\ slideshow' = [slideshow EXCEPT ![c] = r.data]
            /\ Logs(c, LookupCalls(attrs[c]) \o << SendData("recv", r.data) >>)
  /\ UNCHANGED <<db, conn, scope, user, authenticated, attrs, timer, cur, obj, nrecv,
                 late, writer>>

\* patch_slideshow, the branch check and the row lookup
PatchRead(c) ==
  LET r == Lookup(user[c], attrs[c], db) IN
  /\ pc[c] = "patch"
  /\ IF r.type = "ok"
       THEN /\ obj' = [obj EXCEPT ![c] = r.data]
            /\ pc' = [pc EXCEPT ![c] = "save"]
            /\ Logs(c, LookupCalls(attrs[c]))
            /\ UNCHANGED conn
     ELSE IF r.type = "error"
       THEN /\ Logs(c, LookupCalls(attrs[c]) \o << SendError("recv", r.error_message) >>)
            /\ pc' = [pc EXCEPT ![c] = "idle"]
            /\ UNCHANGED <<obj, conn>>
       ELSE /\ conn' = [conn EXCEPT ![c] = "crashed"]
            /\ pc' = [pc EXCEPT ![c] = "idle"]
            /\ Logs(c, LookupCalls(attrs[c]))
            /\ UNCHANGED obj
  /\ UNCHANGED <<db, scope, user, authenticated, attrs, slideshow, timer, cur, nrecv,
                 late, writer>>

\* patch_slideshow, is_valid and save, and handle_authenticated_message
\* resuming with the result
PatchSave(c) ==
  LET data == cur[c].data
      new == ApplyPatch(obj[c], data) IN
  /\ pc[c] = "save"
  /\ pc' = [pc EXCEPT ![c] = "idle"]
  /\ IF IsValid(data)
       THEN /\ db' = [db EXCEPT ![obj[c].id] = new]
            /\ writer' = [writer EXCEPT ![obj[c].id] = [by |-> c, data |-> data]]
            /\ slideshow' = [slideshow EXCEPT ![c] = new]
            /\ Logs(c, << Call("commit"), SendMessage("recv", "Slideshow updated") >>)
       ELSE /\ Logs(c, << SendError("recv", "Slideshow not updated") >>)
            /\ UNCHANGED <<db, writer, slideshow>>
  /\ UNCHANGED <<conn, scope, user, authenticated, attrs, timer, cur, obj, nrecv, late>>

\* one connection, any scope and any frame
Next ==
  \/ \E sc \in Scopes : Connect(1, sc)
  \/ \E f \in Frames : Receive(1, f, MaxFrames)
  \/ VerifyDone(1)
  \/ LoadDone(1)
  \/ PatchRead(1)
  \/ PatchSave(1)
  \/ TimerExpire(1)
  \/ Disconnect(1)

Spec == Init /\ [][Next]_vars

\* two connections on the fixture document
NextShared ==
  \/ \E c \in Conns : \E sc \in PeerScopes : Connect(c, sc)
  \/ \E c \in Conns : \E f \in PeerFrames : Receive(c, f, MaxPeerFrames)
  \/ \E c \in Conns : VerifyDone(c)
  \/ \E c \in Conns : LoadDone(c)
  \/ \E c \in Conns : PatchRead(c)
  \/ \E c \in Conns : PatchSave(c)
  \/ \E c \in Conns : TimerExpire(c)
  \/ \E c \in Conns : Disconnect(c)

SpecShared == Init /\ [][NextShared]_vars

\* ------------------------------------------------------- reading the logs
IsOutput(e) == e.k \in {"send", "close"}
ByHandler(e) == e.by = "recv"
IsRecv(e) == e.k = "recv"

\* the index of the first frame handed to receive after entry i, or one past
\* the end of the log
NextRecv(c, i) ==
  LET later == { j \in (i + 1)..Len(log[c]) : IsRecv(log[c][j]) } IN
  IF later = {} THEN Len(log[c]) + 1
  ELSE CHOOSE j \in later : \A k \in later : j <= k

\* what the handler of the frame at entry i did, in order
HandlerEvents(c, i) == SelectSeq(SubSeq(log[c], i + 1, NextRecv(c, i) - 1), ByHandler)

\* the handler of the frame at entry i has returned
Returned(c, i) == NextRecv(c, i) <= Len(log[c]) \/ pc[c] = "idle"

\* entry i is the first frame of the connection
FirstFrame(c, i) ==
  /\ IsRecv(log[c][i])
  /\ \A j \in 1..(i - 1) : ~IsRecv(log[c][j])

\* the session is awaiting authentication when entry i arrives: nothing was
\* closed and no authenticated acknowledgement was sent before it
AwaitingAuth(c, i) ==
  \A j \in 1..(i - 1) :
    /\ log[c][j].k # "close"
    /\ log[c][j] # SendType("recv", "authenticated")

IsAuthFrame(f) == f.json = "obj" /\ f.hasType /\ f.type = "authenticate"
TokenMissing(f) == ~f.hasToken \/ f.token = ""

\* the error message {"error": "Missing authentication", "code": code}
IsAuthErrorWithCode(e, code) ==
  /\ e.k = "send"
  /\ e.key = "error"
  /\ e.text = "Missing authentication"
  /\ e.hasCode
  /\ e.code = code

\* the frame at entry i is handed to handle_authenticated_message: the
\* authenticated acknowledgement was sent before it
AuthedAt(c, i) ==
  \E j \in 1..(i - 1) : log[c][j] = SendType("recv", "authenticated")

\* what the handler of the frame at entry i sent and closed, in order
Outputs(c, i) == SelectSeq(HandlerEvents(c, i), IsOutput)

\* the frame at entry i is the last one handed to receive so far
LastFrame(c, i) == IsRecv(log[c][i]) /\ NextRecv(c, i) > Len(log[c])

\* the token of the frame verifies
Verifies(f) ==
  /\ IsAuthFrame(f)
  /\ ~TokenMissing(f)
  /\ GetUserFromToken(f.token) \notin {"TokenError", "DoesNotExist"}

IsPresence(e) == e.k = "send" /\ e.key = "presence"

Quiescent == \A c \in Conns : pc[c] = "idle"

\* connection d is an open member of the group of slideshow s
Member(d, s) ==
  /\ conn[d] = "live"
  /\ ~closed[d]
  /\ authenticated[d]
  /\ attrs[d].sid = s
  /\ slideshow[d] # NoSnap

\* ------------------------------------------------------------------ claims

\* C1: a connection that sends no authenticate message before the deadline
\* expires is sent {"error": "Missing authentication", "code": 4001}, is then
\* closed with 4001, and no presence is ever announced for it.
C1_TimeoutAnnouncesAndCloses ==
  \A c \in Conns :
    ( /\ timer[c] = "fired"
      /\ \A i \in 1..Len(log[c]) :
           (IsRecv(log[c][i]) /\ IsAuthFrame(log[c][i].frame))
             => \E j \in 1..(i - 1) : log[c][j].by = "timer" )
    => /\ \E j \in 1..(Len(log[c]) - 1) :
            /\ log[c][j].by = "timer"
            /\ IsAuthErrorWithCode(log[c][j], 4001)
            /\ log[c][j + 1] = Close("timer", 4001)
       /\ \A j \in 1..Len(log[c]) : ~IsPresence(log[c][j])

\* C2: a first message that is a JSON object whose type is not "authenticate"
\* is answered by the error message and close code 4002, and
\* get_user_from_token is not called for it.
C2_WrongFirstMessage ==
  \A c \in Conns : \A i \in 1..Len(log[c]) :
    ( /\ FirstFrame(c, i)
      /\ log[c][i].frame.json = "obj"
      /\ ~IsAuthFrame(log[c][i].frame) )
    => /\ HandlerEvents(c, i) =
            << SendError("recv", "Missing authentication"), Close("recv", 4002) >>
       /\ AwaitingAuth(c, i) =>
            \A j \in 1..Len(log[c]) :
              log[c][j].k = "close" => (j = i + 2 \/ \E k \in 1..(j - 1) : log[c][k].k = "close")

C2_Witness ==
  /\ log[1] = << Recv(Obj("message")),
                 SendError("recv", "Missing authentication"), Close("recv", 4002) >>
  /\ timer[1] = "pending"

\* C3: an authenticate message with an absent or empty token, received while
\* awaiting authentication, is answered by close code 4004 without a call of
\* get_user_from_token, and the session never becomes authenticated.
C3_MissingToken ==
  \A c \in Conns : \A i \in 1..Len(log[c]) :
    ( /\ IsRecv(log[c][i])
      /\ AwaitingAuth(c, i)
      /\ IsAuthFrame(log[c][i].frame)
      /\ TokenMissing(log[c][i].frame) )
    => /\ HandlerEvents(c, i) =
            << SendError("recv", "Missing authentication"), Close("recv", 4004) >>
       /\ ~authenticated[c]

\* C4: an authenticate message whose token get_user_from_token rejects with
\* TokenError, received while awaiting authentication, is answered by close
\* code 4001, the session never becomes authenticated, and neither the store
\* nor the access check is consulted for it.
C4_RejectedToken ==
  \A c \in Conns : \A i \in 1..Len(log[c]) :
    ( /\ IsRecv(log[c][i])
      /\ AwaitingAuth(c, i)
      /\ IsAuthFrame(log[c][i].frame)
      /\ ~TokenMissing(log[c][i].frame)
      /\ GetUserFromToken(log[c][i].frame.token) = "TokenError"
      /\ Returned(c, i) )
    => /\ HandlerEvents(c, i) =
            << Call("verify"), SendError("recv", "Missing authentication"),
               Close("recv", 4001) >>
       /\ ~authenticated[c]

\* C5: every close with an authentication code (4001, 4002, 4004) directly
\* follows an error message whose "code" field is that close code.
C5_ErrorCarriesCloseCode ==
  \A c \in Conns : \A i \in 1..Len(log[c]) :
    (log[c][i].k = "close" /\ log[c][i].code \in {4001, 4002, 4004})
    => /\ i > 1
       /\ IsAuthErrorWithCode(log[c][i - 1], log[c][i].code)

\* C6: when authentication ends with the snapshot, everything the server has
\* sent on the connection so far is {"type": "authenticated"} followed by one
\* data message with the snapshot of the bound slideshow.
C6_AuthenticatedThenSnapshot ==
  \A c \in Conns : \A j \in 1..Len(log[c]) :
    (log[c][j].k = "send" /\ log[c][j].key = "data")
    => /\ SelectSeq(SubSeq(log[c], 1, j), IsOutput) =
            << SendType("recv", "authenticated"), log[c][j] >>
       /\ log[c][j].snap.id = scope[c].sid

\* C7: a token that verifies for a user without access to the bound branch,
\* received while awaiting authentication, ends like a rejected token: an
\* error message, then close code 4001.
C7_AccessDeniedCloses ==
  \A c \in Conns : \A i \in 1..Len(log[c]) :
    ( /\ IsRecv(log[c][i])
      /\ AwaitingAuth(c, i)
      /\ IsAuthFrame(log[c][i].frame)
      /\ ~TokenMissing(log[c][i].frame)
      /\ GetUserFromToken(log[c][i].frame.token) \notin {"TokenError", "DoesNotExist"}
      /\ scope[c].bid \in BranchIds
      /\ ~HasMembership(GetUserFromToken(log[c][i].frame.token), scope[c].bid)
      /\ Returned(c, i) )
    => LET h == SelectSeq(HandlerEvents(c, i), IsOutput) IN
       /\ closed[c]
       /\ Len(h) >= 2
       /\ h[Len(h)] = Close("recv", 4001)
       /\ h[Len(h) - 1].k = "send" /\ h[Len(h) - 1].key = "error"

\* C8: once an update is committed on a slideshow and every handler has
\* returned, every open connection authenticated on that slideshow, the sender
\* included, has been sent the committed snapshot as a data message.
C8_BroadcastCompleteness ==
  \A s \in SlideshowIds :
    (writer[s].by # 0 /\ Quiescent)
    => \A d \in Conns :
         Member(d, s) => \E j \in 1..Len(log[d]) : log[d][j] = SendData("recv", db[s])

\* C9: an update acknowledged with {"message": "Slideshow updated"} was sent
\* with a non-empty valid data object and committed just before the
\* acknowledgement, each commit is acknowledged once, each update is
\* acknowledged at most once, and as long as no later update is committed a
\* load by the sender returns the fields the update wrote.
C9_AckAfterCommit ==
  /\ \A c \in Conns : \A j \in 1..Len(log[c]) :
       /\ log[c][j] = SendMessage("recv", "Slideshow updated")
            => /\ j > 1
               /\ log[c][j - 1] = Call("commit")
       /\ log[c][j] = Call("commit")
            => /\ j < Len(log[c])
               /\ log[c][j + 1] = SendMessage("recv", "Slideshow updated")
       /\ IsRecv(log[c][j])
            => LET h == HandlerEvents(c, j)
                   acks == { k \in 1..Len(h) : h[k] = SendMessage("recv", "Slideshow updated") } IN
               /\ Cardinality(acks) <= 1
               /\ acks # {} =>
                    /\ log[c][j].frame.type = "update"
                    /\ log[c][j].frame.data.kind = "dict"
                    /\ log[c][j].frame.data.keys # {}
  /\ \A s \in SlideshowIds :
       writer[s].by # 0 =>
         LET w == writer[s].by
             r == GetSlideshow(user[w], attrs[w], db) IN
         /\ r.type = "ok"
         /\ r.data.id = s
         /\ \A k \in writer[s].data.keys \cap {"name", "slideshow_data"} :
              r.data[k] = writer[s].data[k]

C9_Witness ==
  /\ Len(log[1]) > 0
  /\ log[1][Len(log[1])] = SendMessage("recv", "Slideshow updated")
  /\ cur[1] = Update(PatchData)
  /\ db["1"].slideshow_data = "d1"
  /\ pc[1] = "idle"

\* C10: after the only connection of a principal on a slideshow has stopped
\* and every handler has returned, each remaining member of the group has been
\* sent a presence message.
C10_PresenceCleanup ==
  \A c \in Conns :
    ( /\ conn[c] = "stopped"
      /\ authenticated[c]
      /\ slideshow[c] # NoSnap
      /\ Quiescent
      /\ \A d \in Conns \ {c} : user[d] # user[c] )
    => \A d \in Conns \ {c} :
         Member(d, attrs[c].sid) => \E j \in 1..Len(log[d]) : IsPresence(log[d][j])

\* C11: whenever the connections authenticated on a slideshow are at rest,
\* each of them has been sent a presence message listing the principals
\* authenticated on it.
C11_PresenceInvariant ==
  \A s \in SlideshowIds :
    LET members == { d \in Conns : Member(d, s) } IN
    (Quiescent /\ members # {})
    => \A d \in members : \E j \in 1..Len(log[d]) : IsPresence(log[d][j])

\* the user has access to the branch of the URL, and the slideshow id of the
\* URL is a number that names no slideshow of that branch
NotFoundInBranch(u, sc) ==
  /\ sc.bid \in BranchIds
  /\ HasMembership(u, sc.bid)
  /\ sc.sid \in NumericIds
  /\ (sc.sid \in SlideshowIds => db[sc.sid].branch # sc.bid)

\* C12: an authenticate message whose token verifies for a user with access
\* to the bound branch, when the bound slideshow is not found in that branch,
\* is answered by the acknowledgement and one error message: the handler sends
\* no data message and closes nothing, and the connection stays open.
C12_LoadFailureKeepsOpen ==
  \A c \in Conns : \A i \in 1..Len(log[c]) :
    ( /\ IsRecv(log[c][i])
      /\ AwaitingAuth(c, i)
      /\ Verifies(log[c][i].frame)
      /\ NotFoundInBranch(GetUserFromToken(log[c][i].frame.token), scope[c])
      /\ Returned(c, i) )
    => /\ Outputs(c, i) =
            << SendType("recv", "authenticated"), SendError("recv", "Slideshow not found") >>
       /\ (LastFrame(c, i) /\ \A j \in 1..Len(log[c]) : log[c][j].by # "timer")
            => ~closed[c]

C12_Witness ==
  /\ scope[1] = [sid |-> "2", bid |-> "15"]
  /\ log[1] = << Recv(Auth("t1")), Call("verify"), SendType("recv", "authenticated"),
                 Call("load"), Call("access"), SendError("recv", "Slideshow not found") >>
  /\ ~closed[1]
  /\ conn[1] = "live"

\* the deadline expires while get_user_from_token runs for the frame at
\* entry i: the timer's events directly follow the call
DeadlineDuringVerify(c, i) ==
  /\ IsRecv(log[c][i])
  /\ AwaitingAuth(c, i)
  /\ Len(log[c]) >= i + 3
  /\ log[c][i + 1] = Call("verify")
  /\ log[c][i + 2].by = "timer"
  /\ log[c][i + 3] = Close("timer", 4001)

\* C13: when the deadline expires while the token of an authenticate message
\* is being verified, the connection is closed once, by the timer, and the
\* handler that resumes afterwards sends nothing, closes nothing and does not
\* mark the session authenticated.
C13_DeadlineWinsOverLateVerify ==
  \A c \in Conns : \A i \in 1..Len(log[c]) :
    (DeadlineDuringVerify(c, i) /\ Returned(c, i))
    => /\ Outputs(c, i) = << >>
       /\ Len(SelectSeq(SubSeq(log[c], 1, NextRecv(c, i) - 1),
                        LAMBDA e : e.k = "close")) = 1
       /\ LastFrame(c, i) => ~authenticated[c]

\* the data field of an update is missing, not a JSON object, or empty
NoUsableData(f) ==
  \/ f.data.kind = "absent"
  \/ f.data.kind = "nondict"
  \/ f.data.kind = "dict" /\ f.data.keys = {}

\* C14: on an authenticated connection an update whose data field is missing,
\* not an object or an empty object is answered by exactly one error message:
\* patch_slideshow is not called, nothing is acknowledged or closed, and the
\* session stays open and authenticated.
C14_UpdateWithoutData ==
  \A c \in Conns : \A i \in 1..Len(log[c]) :
    ( /\ IsRecv(log[c][i])
      /\ AuthedAt(c, i)
      /\ log[c][i].frame.json = "obj"
      /\ log[c][i].frame.hasType
      /\ log[c][i].frame.type = "update"
      /\ NoUsableData(log[c][i].frame) )
    => /\ HandlerEvents(c, i) = << SendError("recv", "Missing or invalid data") >>
       /\ authenticated[c]
       /\ LastFrame(c, i) => (pc[c] = "idle" /\ conn[c] # "crashed")

C14_Witness ==
  /\ Len(log[1]) = 8
  /\ log[1][7] = Recv(Update(EmptyDict))
  /\ log[1][8] = SendError("recv", "Missing or invalid data")
  /\ log[1][6] = SendData("recv", InitDb["1"])
  /\ conn[1] = "live"
  /\ ~closed[1]

\* C16: on an authenticated connection a text frame that is not parseable
\* JSON is answered by one error message: nothing is closed, the store is not
\* called, and the session stays open and authenticated.
C16_MalformedJsonWhenAuthenticated ==
  \A c \in Conns : \A i \in 1..Len(log[c]) :
    ( /\ IsRecv(log[c][i])
      /\ AuthedAt(c, i)
      /\ log[c][i].frame.json = "invalid" )
    => /\ HandlerEvents(c, i) = << SendError("recv", "Invalid JSON data") >>
       /\ authenticated[c]
       /\ LastFrame(c, i) => (pc[c] = "idle" /\ conn[c] # "crashed")

C16_Witness ==
  /\ Len(log[1]) = 8
  /\ log[1][7] = Recv(Frame("invalid", FALSE, "", FALSE, "", NoData))
  /\ log[1][8] = SendError("recv", "Invalid JSON data")
  /\ log[1][6] = SendData("recv", InitDb["1"])
  /\ conn[1] = "live"
  /\ ~closed[1]

\* a patch the serializer refuses: a blank name
BlankName(data) == "name" \in data.keys /\ data.name = ""

\* the update at entry i reached patch_slideshow and was turned down there:
\* the branch check or the row lookup failed, or the patch is not valid
StoreRejects(c, i) ==
  /\ IsRecv(log[c][i])
  /\ AuthedAt(c, i)
  /\ log[c][i].frame.json = "obj"
  /\ log[c][i].frame.hasType
  /\ log[c][i].frame.type = "update"
  /\ ~NoUsableData(log[c][i].frame)
  /\ \/ Lookup(user[c], attrs[c], db).type = "error"
     \/ /\ Lookup(user[c], attrs[c], db).type = "ok"
        /\ BlankName(log[c][i].frame.data)

\* what the rejected update at entry i must look like once its handler has
\* returned: one error message, no commit, no acknowledgement, no close
RejectedUpdateAnswered ==
  \A c \in Conns : \A i \in 1..Len(log[c]) :
    (StoreRejects(c, i) /\ Returned(c, i))
    => /\ Len(Outputs(c, i)) = 1
       /\ Outputs(c, i)[1].k = "send"
       /\ Outputs(c, i)[1].key = "error"
       /\ \A k \in 1..Len(HandlerEvents(c, i)) : HandlerEvents(c, i)[k] # Call("commit")
       /\ authenticated[c]
       /\ LastFrame(c, i) => conn[c] # "crashed"

\* the step in which patch_slideshow turns an update down leaves the rows,
\* the cached snapshots and the connection as they were
RejectedUpdateChangesNothing ==
  \A c \in Conns :
    ( /\ pc'[c] = "idle"
      /\ \/ pc[c] = "patch" /\ Lookup(user[c], attrs[c], db).type = "error"
         \/ pc[c] = "save" /\ BlankName(cur[c].data) )
    => /\ db' = db
       /\ slideshow' = slideshow
       /\ closed' = closed
       /\ conn' = conn
       /\ authenticated' = authenticated

\* C15: on an authenticated connection an update that patch_slideshow turns
\* down (validation error, branch or slideshow lookup failure) is answered by
\* one error message and no acknowledgement; the stored row and the session's
\* cached snapshot are unchanged and the connection is not closed.
C15_RejectedPatch ==
  /\ []RejectedUpdateAnswered
  /\ [][RejectedUpdateChangesNothing]_vars

C15_Witness ==
  /\ Len(log[1]) = 10
  /\ log[1][7] = Recv(Update(PatchBlankName))
  /\ log[1][10] = SendError("recv", "Slideshow not updated")
  /\ db = InitDb
  /\ slideshow[1] = InitDb["1"]
  /\ pc[1] = "idle"
  /\ ~closed[1]

\* the same for a lookup failure: an update on a session whose slideshow was
\* not found in the branch
C15_WitnessLookup ==
  /\ scope[1] = [sid |-> "2", bid |-> "15"]
  /\ Len(log[1]) = 10
  /\ log[1][7] = Recv(Update(PatchName))
  /\ log[1][10] = SendError("recv", "Slideshow not found")

\* C17: while awaiting authentication, a frame that is not parseable JSON is
\* answered by close code 4005, and a failure nothing else catches (JSON that
\* is not an object, an exception out of get_slideshow) by close code 4006;
\* either way the connection has been closed when the handler returns.
C17_MalformedOrUnexpectedCloses ==
  \A c \in Conns : \A i \in 1..Len(log[c]) :
    (IsRecv(log[c][i]) /\ AwaitingAuth(c, i))
    => /\ log[c][i].frame.json = "invalid"
            => (HandlerEvents(c, i) = << Close("recv", 4005) >> /\ closed[c])
       /\ log[c][i].frame.json = "nonobj"
            => (HandlerEvents(c, i) = << Close("recv", 4006) >> /\ closed[c])
       /\ ( /\ Verifies(log[c][i].frame)
            /\ Lookup(GetUserFromToken(log[c][i].frame.token), scope[c], db).type = "raise"
            /\ Returned(c, i) )
            => /\ Outputs(c, i) =
                    << SendType("recv", "authenticated"), Close("recv", 4006) >>
               /\ closed[c]

C17_Witness ==
  /\ log[1] = << Recv(Frame("invalid", FALSE, "", FALSE, "", NoData)), Close("recv", 4005) >>
  /\ closed[1]
  /\ timer[1] = "pending"

\* the 4006 case: get_slideshow raises on a slideshow id that is not a number
C17_WitnessGeneric ==
  /\ scope[1].sid = "x"
  /\ Len(log[1]) = 6
  /\ log[1][1] = Recv(Auth("t1"))
  /\ log[1][6] = Close("recv", 4006)

\* the close code the failure of a JSON object frame calls for: 4002 for a
\* frame that is no authenticate message, 4004 for a missing or empty token,
\* 4001 for everything else
UniformAuthCode(f) ==
  IF ~IsAuthFrame(f) THEN 4002
  ELSE IF TokenMissing(f) THEN 4004
  ELSE 4001

\* C18: while awaiting authentication, a JSON object frame that does not get
\* a user out of get_user_from_token is answered by the error message and a
\* close with 4001, except 4004 for a missing or empty token and 4002 for a
\* frame that is no authenticate message.
C18_UniformAuthFailureCode ==
  \A c \in Conns : \A i \in 1..Len(log[c]) :
    ( /\ IsRecv(log[c][i])
      /\ AwaitingAuth(c, i)
      /\ log[c][i].frame.json = "obj"
      /\ ~Verifies(log[c][i].frame)
      /\ Returned(c, i) )
    => Outputs(c, i) =
         << SendError("recv", "Missing authentication"),
            Close("recv", UniformAuthCode(log[c][i].frame)) >>

\* C19: a frame is handed to handle_authenticated_message only on a session
\* whose token was verified, whose user has access to the bound branch and
\* whose slideshow was loaded and sent.
C19_AuthenticatedOnlyAfterLoad ==
  \A c \in Conns : \A i \in 1..Len(log[c]) :
    (IsRecv(log[c][i]) /\ AuthedAt(c, i))
    => /\ user[c] # "anon"
       /\ attrs[c].bid \in BranchIds
       /\ HasMembership(user[c], attrs[c].bid)
       /\ \E j \in 1..(i - 1) : log[c][j].k = "send" /\ log[c][j].key = "data"

\* C20: once a connection has been closed by the handler or has
\* disconnected, the timer sends nothing and closes nothing on it.
C20_TimerSilentAfterClose ==
  \A c \in Conns : \A j \in 1..Len(log[c]) :
    log[c][j].by = "timer"
    => \A k \in 1..(j - 1) :
         (log[c][k].k = "close" \/ log[c][k] = Gone) => log[c][k].by = "timer"

\* entry i comes after a close of the connection
AfterClose(c, i) == \E k \in 1..(i - 1) : log[c][k].k = "close"

\* C21: once the server has closed a connection, a frame handed to receive
\* afterwards causes nothing: no send, no second close, no call of the token
\* verifier or the store, and the session does not become authenticated; and
\* self.authenticated, once true, stays true.
C21_ClosedIsTerminal ==
  \A c \in Conns :
    /\ \A i \in 1..Len(log[c]) :
         (IsRecv(log[c][i]) /\ AfterClose(c, i)) => HandlerEvents(c, i) = << >>
    /\ (\E j \in 1..Len(log[c]) : log[c][j] = SendType("recv", "authenticated"))
         => authenticated[c]

\* every call of patch_slideshow and every commit on a connection belongs to
\* a frame that arrived after the authenticated acknowledgement
PatchOnlyWhenAuthenticated ==
  \A c \in Conns : \A i \in 1..Len(log[c]) :
    IsRecv(log[c][i])
    => /\ ( \E k \in 1..Len(HandlerEvents(c, i)) :
              HandlerEvents(c, i)[k] \in { Call("patch"), Call("commit") } )
            => (AuthedAt(c, i) /\ authenticated[c] /\ user[c] # "anon")
       /\ ~AuthedAt(c, i)
            => \A k \in 1..Len(HandlerEvents(c, i)) :
                 HandlerEvents(c, i)[k] \notin { Call("patch"), Call("access"), Call("commit") }
                 \/ \E m \in 1..(k - 1) :
                      HandlerEvents(c, i)[m] = SendType("recv", "authenticated")

\* a step that changes a row is the save of an authenticated session
RowsChangeOnlyBySave ==
  db' # db => \E c \in Conns : pc[c] = "save" /\ authenticated[c] /\ user[c] # "anon"

\* C22: patch_slideshow is called only for a session whose
\* self.authenticated is true: no frame of a connection that has not
\* authenticated, an update as first message included, reaches the store or
\* changes a slideshow.
C22_PatchOnlyAuthenticated ==
  /\ []PatchOnlyWhenAuthenticated
  /\ [][RowsChangeOnlyBySave]_vars
  /\ []((\A c \in Conns : ~authenticated[c]) => db = InitDb)

C22_Witness ==
  /\ log[1] = << Recv(Update(PatchName)),
                 SendError("recv", "Missing authentication"), Close("recv", 4002) >>
  /\ db = InitDb

\* and an update that does change a row, sent after authentication
C22_WitnessCommit ==
  /\ authenticated[1]
  /\ db # InitDb
  /\ writer["1"].by = 1

\* C23: on an authenticated connection a JSON object with a type other than
\* "update" (a "message", a repeated "authenticate", any other type) is a
\* no-op: the handler sends nothing and calls nothing, and the session stays
\* open and authenticated.
C23_OtherTypesAreNoOps ==
  \A c \in Conns : \A i \in 1..Len(log[c]) :
    ( /\ IsRecv(log[c][i])
      /\ AuthedAt(c, i)
      /\ log[c][i].frame.json = "obj"
      /\ log[c][i].frame.hasType
      /\ log[c][i].frame.type # "update" )
    => /\ HandlerEvents(c, i) = << >>
       /\ authenticated[c]
       /\ LastFrame(c, i) => (pc[c] = "idle" /\ conn[c] # "crashed")

C23_Witness ==
  /\ Len(log[1]) = 7
  /\ log[1][6] = SendData("recv", InitDb["1"])
  /\ log[1][7] = Recv(Auth("t2"))
  /\ user[1] = "u1"
  /\ conn[1] = "live"
  /\ ~closed[1]

\* C24: no frame handed to handle_authenticated_message ends the consumer:
\* the handler returns for every parseable payload and for every failure of
\* patch_slideshow.
C24_NoCrashWhenAuthenticated ==
  \A c \in Conns : conn[c] # "crashed"

\* the frame whose handler made entry j of the log
FrameOf(c, j) ==
  LET before == { i \in 1..j : IsRecv(log[c][i]) } IN
  log[c][CHOOSE i \in before : \A k \in before : k <= i].frame

\* the value of field k of row s when the committed updates of connection c
\* are applied in the order in which their frames arrived: that of the last
\* committed update naming k, the initial one if there is none
InArrivalOrder(c, s, k) ==
  LET commits == { j \in 1..Len(log[c]) :
                     log[c][j] = Call("commit") /\ k \in FrameOf(c, j).data.keys } IN
  IF commits = {} THEN InitDb[s][k]
  ELSE FrameOf(c, CHOOSE j \in commits : \A m \in commits : m <= j).data[k]

\* each update whose handler returned was answered by one message, before
\* the next frame was taken; the rows hold the updates in arrival order
AnsweredAndAppliedInOrder ==
  /\ \A i \in 1..Len(log[1]) :
       ( /\ IsRecv(log[1][i])
         /\ AuthedAt(1, i)
         /\ log[1][i].frame.json = "obj"
         /\ log[1][i].frame.hasType
         /\ log[1][i].frame.type = "update"
         /\ Lookup(user[1], attrs[1], db).type # "raise"
         /\ Returned(1, i) )
       => /\ Len(Outputs(1, i)) = 1
          /\ Outputs(1, i)[1].k = "send"
          /\ Outputs(1, i)[1].key \in {"message", "error"}
  /\ pc[1] = "idle" =>
       \A s \in SlideshowIds : \A k \in {"name", "slideshow_data"} :
         db[s][k] = IF scope[1].sid = s THEN InArrivalOrder(1, s, k) ELSE InitDb[s][k]

\* a frame is handed to receive only when the handler of the frame before
\* has returned
OneHandlerAtATime ==
  \A c \in Conns : nrecv'[c] # nrecv[c] => pc[c] = "idle"

\* C25: the frames of a connection are handled one after the other in
\* arrival order: a handler, its suspended calls and replies included, is
\* done before the next frame is taken, so each update is answered before the
\* next one is handled and two updates are applied in the order sent.
C25_ArrivalOrder ==
  /\ []AnsweredAndAppliedInOrder
  /\ [][OneHandlerAtATime]_vars

C25_Witness ==
  /\ Len(log[1]) = 16
  /\ log[1][7] = Recv(Update(PatchBranch))
  /\ log[1][12] = Recv(Update(PatchName))
  /\ log[1][16] = SendMessage("recv", "Slideshow updated")
  /\ db["1"].name = "n1"
  /\ pc[1] = "idle"

\* the authenticated acknowledgement appears at most once in a log
AcknowledgedOnce ==
  \A c \in Conns : \A i, j \in 1..Len(log[c]) :
    ( /\ log[c][i] = SendType("recv", "authenticated")
      /\ log[c][j] = SendType("recv", "authenticated") ) => i = j

\* self.user, once it is a user, does not change
PrincipalKept ==
  \A c \in Conns : user[c] # "anon" => user'[c] = user[c]

\* C26: self.user is set at most once and {"type": "authenticated"} is sent
\* at most once per connection: an authenticate message on an authenticated
\* session, even with another valid token, changes neither.
C26_PrincipalSetOnce ==
  /\ []AcknowledgedOnce
  /\ [][PrincipalKept]_vars
  /\ [](\A c \in Conns : authenticated[c] <=> user[c] # "anon")

C26_Witness ==
  /\ Len(log[1]) = 7
  /\ log[1][1] = Recv(Auth("t2"))
  /\ log[1][3] = SendType("recv", "authenticated")
  /\ log[1][7] = Recv(Auth("t1"))
  /\ user[1] = "u2"
  /\ pc[1] = "idle"

\* connection c is bound to a slideshow of a branch its user has access to
BoundAndAllowed(c) ==
  /\ attrs[c].bid \in BranchIds
  /\ HasMembership(user[c], attrs[c].bid)
  /\ attrs[c].sid \in SlideshowIds
  /\ db[attrs[c].sid].branch = attrs[c].bid

\* a step that changes a row is the save of a session bound to that row and
\* allowed on its branch, and it changes no other row
AuthorizedSave ==
  db' # db
  => \E c \in Conns :
       /\ pc[c] = "save"
       /\ BoundAndAllowed(c)
       /\ \A s \in SlideshowIds \ {attrs[c].sid} : db'[s] = db[s]

\* every commit follows a call of get_branch_for_user made for the same
\* update
AccessCheckedPerPatch ==
  \A c \in Conns : \A j \in 1..Len(log[c]) :
    log[c][j] = Call("commit")
    => /\ j > 2
       /\ log[c][j - 1] = Call("access")
       /\ log[c][j - 2] = Call("patch")

\* C27: every update is authorized when it is applied: a row changes only if
\* the session's user has access to the bound branch and the bound slideshow
\* belongs to it, no row but the bound one changes, and a session without a
\* branch changes nothing.
C27_PatchRechecksAccess ==
  /\ [][AuthorizedSave]_vars
  /\ []AccessCheckedPerPatch
  /\ [](\A s \in SlideshowIds :
          db[s] # InitDb[s] => \E c \in Conns : scope[c].sid = s /\ BoundAndAllowed(c))

C27_Witness ==
  /\ scope[1] = [sid |-> "1", bid |-> "15"]
  /\ user[1] = "u1"
  /\ Len(log[1]) = 11
  /\ log[1][7] = Recv(Update(PatchName))
  /\ log[1][9] = Call("access")
  /\ log[1][10] = Call("commit")
  /\ db["1"].name = "n1"
  /\ db["2"] = InitDb["2"]

\* an update of a session bound without a branch
C27_WitnessNoBranch ==
  /\ scope[1].bid = "none"
  /\ Len(log[1]) = 8
  /\ log[1][6] = Recv(Update(PatchName))
  /\ log[1][8] = SendError("recv", "Branch id not found")
  /\ db = InitDb

\* C28: a data message with a snapshot is sent on a connection only after
\* its token was verified, to a user who has access to the bound branch, and
\* the snapshot is that of the bound slideshow, which belongs to that branch.
C28_SnapshotOnlyToAllowed ==
  \A c \in Conns : \A j \in 1..Len(log[c]) :
    (log[c][j].k = "send" /\ log[c][j].key = "data")
    => /\ \E v \in 1..(j - 1) :
            /\ log[c][v] = Call("verify")
            /\ \E a \in (v + 1)..(j - 1) : log[c][a] = SendType("recv", "authenticated")
       /\ log[c][j - 1] = Call("access")
       /\ user[c] # "anon"
       /\ scope[c].bid \in BranchIds
       /\ HasMembership(user[c], scope[c].bid)
       /\ log[c][j].snap.id = scope[c].sid
       /\ log[c][j].snap.branch = scope[c].bid

C28_Witness ==
  /\ scope[1] = [sid |-> "1", bid |-> "15"]
  /\ user[1] = "u1"
  /\ Len(log[1]) = 6
  /\ log[1][6] = SendData("recv", InitDb["1"])

\* a verified user without access to the bound branch gets no snapshot
C28_WitnessDenied ==
  /\ scope[1] = [sid |-> "1", bid |-> "15"]
  /\ user[1] = "u2"
  /\ Len(log[1]) = 6
  /\ log[1][6] = SendError("recv", "User does not have permission to access branch")

\* the values the committed updates of all connections gave field k
CommittedValues(k) ==
  UNION { { FrameOf(c, j).data[k] :
              j \in { m \in 1..Len(log[c]) :
                        log[c][m] = Call("commit") /\ k \in FrameOf(c, m).data.keys } } :
          c \in Conns }

\* C29: when the updates of two sessions on the same slideshow have been
\* committed, each field some update named holds the value one of those
\* updates gave it, as it would after applying the patches one after the
\* other: an update of another field does not undo it.
C29_ConcurrentPatchesSerialize ==
  Quiescent
  => \A k \in {"name", "slideshow_data"} :
       CommittedValues(k) # {} => db["1"][k] \in CommittedValues(k)

\* the save of connection c changes, in the stored row, only fields that its
\* update names, and neither id nor branch
SaveIsPartial ==
  \A c \in Conns : \A s \in SlideshowIds :
    (pc[c] = "save" /\ pc'[c] = "idle" /\ db'[s] # db[s])
    => /\ db'[s].id = db[s].id
       /\ db'[s].branch = db[s].branch
       /\ \A k \in {"name", "slideshow_data"} :
            k \notin cur[c].data.keys => db'[s][k] = db[s][k]

\* C30: an update is a partial patch: the fields of the stored slideshow that
\* its data object does not name keep the values they had, and its id and
\* branch never change.
C30_PartialPatch == [][SaveIsPartial]_vars

====
